---------------------------- MODULE Spec2Model ----------------------------
(***************************************************************************)
(* Model of parallel.c: the bit-banged 6800/8080 parallel bus engine for   *)
(* the Raspberry Pi GPIO block.                                            *)
(*                                                                         *)
(* The state is the GPIO hardware (function-select words 0..2 and the      *)
(* output latch behind GPSET0/GPCLR0), the library's globals (gpioReg,     *)
(* curchip, ttime, timing, clr, set), the heap of chip descriptors, the    *)
(* locals of the transfer in progress, the monotonic clock and the         *)
(* controller attached to the data lines.  A transfer is a sequence of     *)
(* steps in program order, one per register access, each with the WAIT()   *)
(* that precedes it.                                                       *)
(*                                                                         *)
(* A uint32_t bit mask is the set of its set bit positions: 1 << p is {p}, *)
(* a | b is a \cup b.  A function-select word is kept as a number.         *)
(***************************************************************************)
EXTENDS Integers, Sequences, FiniteSets, TLC

(***************************************************************************)
(* Program constants.                                                      *)
(***************************************************************************)
PI_INPUT == 0
PI_OUTPUT == 1
UNDEFINED == 65535
P6800 == 6800
P8080 == 8080
NSEC == 1000000000
MAP_FAILED == -1
MaxPin == 27

(***************************************************************************)
(* Bounds of the model.                                                    *)
(***************************************************************************)
MaxLen == 2
MaxMaps == 2
MaxLeak == 1
MaxTime == 30
StubDepth == 2
SysTime == 8
MaxDelay == 1
TimeSpan == 14

\* the clock value at program start, chosen so that tv_nsec carries into tv_sec
InitClock == NSEC - 12
\* descriptor handles malloc can return
Handles == {1, 2}
NULL == 0
\* bytes the caller sends
DataVals == {53, 202}
\* what a caller's read buffer holds before the call
FillByte == 238
\* clock time that may pass in the caller between two calls
IdleGaps == {4}

VARIABLES
    gpioReg,    \* the global pointer: MAP_FAILED or the id of a mapping
    nmaps,      \* mappings of /dev/gpiomem made so far (none is ever unmapped)
    chips,      \* heap: handle -> chip descriptor, or NoChip when not allocated
    leaked,     \* malloc'ed descriptors no pointer refers to any more
    fsel,       \* GPIO function-select words 0..2
    latch,      \* GPIO output latch, bank 0: the set of pins set high
    curchip,    \* global curchip
    ttime,      \* global ttime: [sec, nsec]
    timing,     \* global timing
    clr,        \* global clr
    set,        \* global set
    pc,         \* position of the call in progress, "idle" between calls
    call,       \* the arguments of the call in progress or last returned
    buf,        \* the memory datapos points to
    ret,        \* the value the last call returned
    loc,        \* locals of readparallel / writeparallel
    now,        \* CLOCK_MONOTONIC, in ns
    fifo,       \* the controller on the stub pins: the phase values it has latched
    bus,        \* the value the controller drives on the data lines, or BusZ
    trace,      \* levels written to the control lines in the current transfer
    jitter,     \* the delays the scheduler can put into a WAIT() on this system
    edge        \* the last register write to a strobe line: its clock time, the
                \* cursor SET() left after it and the call that made it; NoEdge once
                \* a later call has written a register

vars == <<gpioReg, nmaps, chips, leaked, fsel, latch, curchip, ttime, timing,
          clr, set, pc, call, buf, ret, loc, now, fifo, bus, trace, jitter, edge>>

NoChip == [protocol |-> 0]
NoEdge == [at |-> 0, due |-> 0, by |-> "none", h |-> 0]
BusZ == -1
Void == -2

(***************************************************************************)
(* Bit and word arithmetic.                                                *)
(***************************************************************************)
\* (w >> shift) & 7
Field3(w, shift) == (w \div (2 ^ shift)) % 8

\* (w & ~(7<<shift)) | (mode<<shift)
FselBuf(w, shift, mode) ==
    w - Field3(w, shift) * (2 ^ shift) + mode * (2 ^ shift)

\* bit k (0 = least significant) of the byte b
BitOf(b, k) == (b \div (2 ^ k)) % 2

\* fault: the word is rebuilt from the one field, the other pins' fields lost
SetModeBuf_ClearsWord(gbuf, gpio, mode) ==
    [gbuf EXCEPT ![gpio \div 10] = mode * (2 ^ ((gpio % 10) * 3))]

\* gpioBuf with pin gpio put in mode
SetModeBuf(gbuf, gpio, mode) ==
    LET reg == gpio \div 10
        shift == (gpio % 10) * 3
    IN  [gbuf EXCEPT ![reg] = FselBuf(gbuf[reg], shift, mode)]

RECURSIVE SetModesBuf(_, _, _, _, _)
\* the loop over pins[i], i = lo..hi-1, of writeparallel: gpioBuf with each in mode
SetModesBuf(gbuf, pins, lo, hi, mode) ==
    IF lo >= hi THEN gbuf
    ELSE SetModesBuf(SetModeBuf(gbuf, pins[lo], mode), pins, lo + 1, hi, mode)

gpioGetMode(gpio) == Field3(fsel[gpio \div 10], (gpio % 10) * 3)

\* clock_gettime: ns since boot as a struct timespec
TimeSpec(t) == [sec |-> t \div NSEC, nsec |-> t % NSEC]
\* tv_sec * 1000000000 + tv_nsec
TsNs(ts) == ts.sec * NSEC + ts.nsec

(***************************************************************************)
(* Chip descriptors.                                                       *)
(***************************************************************************)
D0 == 7
RSCD == 8
ENWR == 9
RWRD == 10

\* the two sets of pins descriptors are created on: d7..d0, rscd, enwr, rwrd
LayA == [k \in 0..10 |-> IF k <= 7 THEN 4 + k ELSE IF k = RSCD THEN 2
                         ELSE IF k = ENWR THEN 3 ELSE 12]
LayB == [k \in 0..10 |-> IF k <= 7 THEN 27 - k ELSE IF k = RSCD THEN 17
                         ELSE IF k = ENWR THEN 18 ELSE 19]

\* a pin argument that initialise range-checks
NormPin(x) == IF (x > MaxPin) \/ (x < 0) THEN UNDEFINED ELSE x

\* the descriptor initialise builds from its seventeen arguments
MkChip(a) ==
    [pins |-> [k \in 0..10 |->
                  IF k \in {4, 5, 6, 7, 10} THEN NormPin(a.pins[k]) ELSE a.pins[k]],
     protocol |-> a.protocol,
     tsetup |-> a.tsetup, tclock |-> a.tclock, tread |-> a.tread,
     tproc |-> a.tproc, thold |-> a.thold]

Bpc(c) == IF c.pins[D0] = UNDEFINED THEN 4 ELSE 8

DefinedPins(c) == {c.pins[k] : k \in 0..10} \ {UNDEFINED}
DataPins(c) == {c.pins[k] : k \in 0..7} \ {UNDEFINED}
CtrlPins(c) == {c.pins[k] : k \in 8..10} \ {UNDEFINED}

Live == {h \in Handles : chips[h] # NoChip}

\* the loops of initialise over pins[i], i = lo..hi-1: UNDEFINED pins are skipped
RECURSIVE SetModesInit(_, _, _, _, _)
SetModesInit(gbuf, pins, lo, hi, mode) ==
    IF lo >= hi THEN gbuf
    ELSE SetModesInit(IF pins[lo] # UNDEFINED
                         THEN SetModeBuf(gbuf, pins[lo], mode) ELSE gbuf,
                      pins, lo + 1, hi, mode)

(***************************************************************************)
(* The timing gate.                                                        *)
(***************************************************************************)
\* fault: WAIT() never moves the cursor to the clock
WaitCursor_NoStretch(c1) == ttime

\* WAIT(): the cursor after the overshoot test.  c1 is the clock read first.
WaitCursor(c1) ==
    IF c1 >= TsNs(ttime) + timing THEN TimeSpec(c1) ELSE ttime

\* WAIT(): the clock value the busy loop leaves at; d2 is how late it notices
WaitExit(c1, d2) ==
    LET ntime == TsNs(WaitCursor(c1)) + timing
    IN  (IF c1 >= ntime THEN c1 ELSE ntime) + d2

\* fault: SET() wraps tv_nsec without the carry into tv_sec
SetCursor_NoCarry(ts, t) == [sec |-> ts.sec, nsec |-> (ts.nsec + t) % NSEC]

\* SET(): the cursor advanced by timing, with the carry into tv_sec
SetCursor(ts, t) ==
    IF ts.nsec + t >= NSEC
        THEN [sec |-> ts.sec + 1, nsec |-> ts.nsec + t - NSEC]
        ELSE [sec |-> ts.sec, nsec |-> ts.nsec + t]

(***************************************************************************)
(* The GPIO block and the controller on the bus.                           *)
(***************************************************************************)
\* the latch after mask is written to GPSET0 (level 1) or GPCLR0 (level 0)
LatchAfter(l, level, mask) == IF level = 1 THEN l \cup mask ELSE l \ mask

\* the strobe levels of a chip c in latch l
EnwrActive(c, l) ==
    IF c.protocol = P6800 THEN c.pins[ENWR] \in l ELSE c.pins[ENWR] \notin l
\* the controller is commanded to drive the data lines
ReadMode(c, l) ==
    /\ c.pins[RWRD] # UNDEFINED
    /\ IF c.protocol = P6800 THEN c.pins[RWRD] \in l ELSE c.pins[RWRD] \notin l
\* the controller drives the data lines: 6800 RW high and E high, 8080 RD low
Driving(c, l) ==
    IF c.protocol = P6800 THEN ReadMode(c, l) /\ EnwrActive(c, l)
    ELSE ReadMode(c, l)
\* a write strobe ends: 6800 E falls with RW low, 8080 WR rises
WriteLatch(c, l, l2) ==
    /\ EnwrActive(c, l) /\ ~EnwrActive(c, l2)
    /\ (c.protocol = P6800 => ~ReadMode(c, l))

\* the value on the data lines d7.. of c, d7 the most significant, in latch l
RECURSIVE LineValue(_, _, _)
LineValue(c, l, k) ==
    IF k >= Bpc(c) THEN 0
    ELSE (IF c.pins[k] \in l THEN 2 ^ (Bpc(c) - 1 - k) ELSE 0) + LineValue(c, l, k + 1)

\* the pins the controller pulls high when it drives the value v
BusHigh(c, v) ==
    IF v = BusZ THEN {}
    ELSE {c.pins[k] : k \in {x \in 0..(Bpc(c) - 1) : BitOf(v, Bpc(c) - 1 - x) = 1}}

\* GPLEV0: an output pin reads its latch, any other pin what is driven on it
Gplev0(c) ==
    {p \in 0..MaxPin : IF gpioGetMode(p) = PI_OUTPUT THEN p \in latch
                       ELSE p \in BusHigh(c, bus)}

\* what lines nothing drives may read as: all low or all high
FloatVals(c) == {0, 2 ^ Bpc(c) - 1}

\* the stub controller is wired to the data lines of LayA
Stubbed(c) == c.pins[0] = LayA[0]

\* what is on the bus after a write changes the latch from l to l2: when the read
\* strobe begins the stub replays its oldest value; lines nothing drives float
BusChoices(c, l, l2) ==
    IF Driving(c, l2) /\ ~Driving(c, l)
        THEN (IF Stubbed(c) /\ fifo # << >> THEN {Head(fifo)} ELSE FloatVals(c))
    ELSE IF Driving(c, l2) THEN {bus}
    ELSE {BusZ}

\* the stub latches the data lines when a write strobe ends, StubDepth bytes at
\* most, and drops a value once it has replayed it
FifoAfter(c, l, l2) ==
    IF ~Stubbed(c) THEN fifo
    ELSE IF WriteLatch(c, l, l2)
        THEN (IF Len(fifo) < StubDepth * (8 \div Bpc(c))
                 THEN Append(fifo, LineValue(c, l2, 0)) ELSE fifo)
    ELSE IF Driving(c, l2) /\ ~Driving(c, l) /\ fifo # << >>
        THEN Tail(fifo)
    ELSE fifo

\* the levels a write of mask puts on the control lines of c, with the level before
CtrlEvents(c, l, level, mask) ==
    LET ev(k, name) == IF c.pins[k] # UNDEFINED /\ c.pins[k] \in mask
                          THEN << <<name, level, IF c.pins[k] \in l THEN 1 ELSE 0>> >>
                          ELSE << >>
    IN  ev(RSCD, "rscd") \o ev(ENWR, "enwr") \o ev(RWRD, "rwrd")

\* *(gpioReg + GPSET0) = mask (level 1) or *(gpioReg + GPCLR0) = mask (level 0)
\* during a transfer on curchip
HwWrite(level, mask) ==
    LET c == chips[curchip]
        l2 == LatchAfter(latch, level, mask)
    IN  /\ latch' = l2
        /\ trace' = trace \o CtrlEvents(c, latch, level, mask)
        /\ fifo' = FifoAfter(c, latch, l2)
        /\ \E v \in BusChoices(c, latch, l2) : bus' = v

(***************************************************************************)
(* Initial state: the process has started and called nothing yet.          *)
(***************************************************************************)
\* scheduler delays inside WAIT(), before its first clock read and between its
\* deadline and the register write after it: none, or up to MaxDelay ns
WaitDelays == {0}
LoadDelays == 0..MaxDelay

\* function-select words as the boot code or another process left them
FselInit ==
    { [r \in 0..2 |-> IF r = 1 THEN 201637964 ELSE 142885409] }
\* output latch levels left behind: the odd pins high
LatchInit == { {p \in 0..MaxPin : p % 2 = 1} }

LocIdle == [i |-> 0, j |-> 0, datum |-> 0, value |-> 0,
            gpioBuf |-> [r \in 0..2 |-> 0]]
\* call.fresh: the stub held nothing when this write began.  call.after: the
\* write on the same chip that this read follows at once, when that write was fresh.
\* call.fsel0: the function-select words when the transfer was called
NoWrite == [op |-> "none", data |-> << >>]
NoCall == [op |-> "none", h |-> NULL, n |-> 0, data |-> << >>,
           fresh |-> FALSE, after |-> NoWrite, fsel0 |-> << >>]

Boot ==
    /\ gpioReg = MAP_FAILED
    /\ nmaps = 0
    /\ chips = [h \in Handles |-> NoChip]
    /\ leaked = 0
    /\ fsel \in FselInit
    /\ latch \in LatchInit
    /\ curchip = NULL
    /\ ttime = [sec |-> 0, nsec |-> 0]
    /\ timing = 0
    /\ clr = {}
    /\ set = {}
    /\ pc = "idle"
    /\ call = NoCall
    /\ buf = << >>
    /\ ret = Void
    /\ loc = LocIdle
    /\ now = InitClock
    /\ fifo = << >>
    /\ bus = BusZ
    /\ trace = << >>
    /\ edge = NoEdge

\* a system on which the scheduler never delays the program
Init == Boot /\ jitter = WaitDelays

(***************************************************************************)
(* initialise and deinitialise.                                            *)
(***************************************************************************)
\* the timings every descriptor of the model is built with, in ns
Timings == [tsetup |-> 1, tclock |-> 1, tread |-> 1, tproc |-> 3, thold |-> 2]

\* the seventeen arguments: data pins d7.. from lay, d3..d0 out of range for
\* 4-bit mode, rwrd out of range for a write-only chip
Args(lay, four, wo, proto) ==
    [pins |-> [k \in 0..10 |->
                  IF four /\ k \in 4..7 THEN 28
                  ELSE IF wo /\ k = RWRD THEN -1
                  ELSE lay[k]],
     protocol |-> proto,
     tsetup |-> Timings.tsetup, tclock |-> Timings.tclock, tread |-> Timings.tread,
     tproc |-> Timings.tproc, thold |-> Timings.thold]

\* gpioInitialise: the outcomes of open and mmap
GpioOutcomes == {"ok", "openfail", "mmapfail"}

\* the latch after the control-line default states are written
InitLatch(c, l) ==
    LET l1 == IF c.protocol = P6800 /\ c.pins[RWRD] # UNDEFINED
                 THEN LatchAfter(l, 0, {c.pins[RWRD]}) ELSE l
        l2 == IF c.protocol = P6800 THEN LatchAfter(l1, 0, {c.pins[ENWR]}) ELSE l1
        l3 == IF c.protocol = P8080 /\ c.pins[RWRD] # UNDEFINED
                 THEN LatchAfter(l2, 1, {c.pins[RWRD]}) ELSE l2
    IN  IF c.protocol = P8080 THEN LatchAfter(l3, 1, {c.pins[ENWR]}) ELSE l3

\* the function-select words initialise writes back
InitFsel(c, gbuf) ==
    SetModesInit(SetModesInit(gbuf, c.pins, 0, 8, PI_INPUT), c.pins, 8, 11, PI_OUTPUT)

\* gpioReg after gpioInitialise
GpioRegAfter(o) ==
    IF o = "ok" THEN nmaps + 1
    ELSE IF o = "mmapfail" THEN MAP_FAILED
    ELSE gpioReg

\* the block malloc returns
Malloc == CHOOSE h \in Handles : chips[h] = NoChip /\ \A g \in Handles : chips[g] = NoChip => h <= g

initialise(a, o) ==
    /\ pc = "idle"
    /\ \E h \in Handles : chips[h] = NoChip
    /\ \A h \in Live : DefinedPins(chips[h]) \cap DefinedPins(MkChip(a)) = {}
    /\ gpioReg' = GpioRegAfter(o)
    /\ call' = [NoCall EXCEPT !.op = "initialise"]
    /\ IF o # "ok"
          THEN /\ leaked < MaxLeak
               /\ leaked' = leaked + 1
               /\ ret' = NULL
               /\ UNCHANGED <<nmaps, chips, fsel, latch, ttime, timing, fifo, bus, trace,
                            edge>>
          ELSE LET h == Malloc
                   c == MkChip(a)
               IN  /\ nmaps < MaxMaps
                   /\ nmaps' = nmaps + 1
                   /\ chips' = [chips EXCEPT ![h] = c]
                   /\ latch' = InitLatch(c, latch)
                   /\ fsel' = InitFsel(c, fsel)
                   /\ ttime' = TimeSpec(now)
                   /\ timing' = 0
                   /\ ret' = h
                   /\ fifo' = IF Stubbed(c) THEN << >> ELSE fifo
                   /\ bus' = BusZ
                   /\ trace' = << >>
                   /\ edge' = NoEdge
                   /\ UNCHANGED leaked
    /\ UNCHANGED <<jitter, curchip, clr, set, pc, buf, loc, now>>

deinitialise(h) ==
    /\ pc = "idle"
    /\ h \in Live
    /\ chips' = [chips EXCEPT ![h] = NoChip]
    /\ call' = [NoCall EXCEPT !.op = "deinitialise", !.h = h]
    /\ ret' = 0
    /\ UNCHANGED <<jitter, edge, gpioReg, nmaps, leaked, fsel, latch, curchip, ttime, timing,
                   clr, set, pc, buf, loc, now, fifo, bus, trace>>

\* the caller does something else between two calls while the clock runs
Idle(g) ==
    /\ pc = "idle"
    /\ now + g <= InitClock + MaxTime
    /\ now' = now + g
    /\ UNCHANGED <<jitter, edge, gpioReg, nmaps, chips, leaked, fsel, latch, curchip, ttime,
                   timing, clr, set, pc, call, buf, ret, loc, fifo, bus, trace>>

(***************************************************************************)
(* The transfer engine.  cur is the descriptor curchip points to.  A step  *)
(* is one register access together with the WAIT() before it and the       *)
(* SET() and assignments after it.                                         *)
(***************************************************************************)
cur == chips[curchip]

\* WAIT(), followed by SET() when advance
WaitThen(advance) ==
    \E d1 \in jitter, d2 \in jitter :
        /\ WaitExit(now + d1, d2) <= InitClock + MaxTime
        /\ now' = WaitExit(now + d1, d2)
        /\ ttime' = IF advance THEN SetCursor(WaitCursor(now + d1), timing)
                    ELSE WaitCursor(now + d1)

\* fault: the 8080 entry points use the 6800 convention for rscd
RscdMasks_AsFor6800(c, isdata) ==
    IF isdata THEN [clr |-> {}, set |-> {c.pins[RSCD]}]
    ELSE [clr |-> {c.pins[RSCD]}, set |-> {}]

\* the rscd bit in (clr, set) for a data or a command transfer
RscdMasks(c, isdata) ==
    IF (c.protocol = P6800) = isdata
        THEN [clr |-> {}, set |-> {c.pins[RSCD]}]
    ELSE [clr |-> {c.pins[RSCD]}, set |-> {}]

IsData(op) == op \in {"writedata", "readdata"}

\* all byte sequences of length 0..n a caller may send
RECURSIVE SeqsUpTo(_)
SeqsUpTo(n) ==
    IF n = 0 THEN { << >> }
    ELSE LET S == SeqsUpTo(n - 1)
         IN  S \cup { Append(q, b) : q \in {x \in S : Len(x) = n - 1}, b \in DataVals }

\* fault: the clock bit is left out of the masks of a write phase
ClockMasks_NoClock(c) == [clr |-> {}, set |-> {}]

\* clr and set before the data bits are added: the active clock edge
ClockMasks(c) ==
    IF c.protocol = P6800 THEN [clr |-> {}, set |-> {c.pins[ENWR]}]
    ELSE [clr |-> {c.pins[ENWR]}, set |-> {}]

\* fault: datum is not shifted, every data pin gets bit 7
RECURSIVE PhaseMasks_NoShift(_, _, _, _)
PhaseMasks_NoShift(c, datum, k, m) ==
    IF k >= Bpc(c) THEN [clr |-> m.clr, set |-> m.set, datum |-> datum]
    ELSE PhaseMasks_NoShift(c, datum, k + 1,
                            IF datum \div 128 = 1
                               THEN [clr |-> m.clr, set |-> m.set \cup {c.pins[k]}]
                               ELSE [clr |-> m.clr \cup {c.pins[k]}, set |-> m.set])

\* the masks of one write phase: bpc bits of datum, MSB first, added to m
RECURSIVE PhaseMasks(_, _, _, _)
PhaseMasks(c, datum, k, m) ==
    IF k >= Bpc(c) THEN [clr |-> m.clr, set |-> m.set, datum |-> datum]
    ELSE PhaseMasks(c, (datum * 2) % 256, k + 1,
                    IF datum \div 128 = 1
                       THEN [clr |-> m.clr, set |-> m.set \cup {c.pins[k]}]
                       ELSE [clr |-> m.clr \cup {c.pins[k]}, set |-> m.set])

\* fault: the bit of pins[k] goes to bit k of value, d7 the least significant
RECURSIVE SampleBits_LsbFirst(_, _, _, _)
SampleBits_LsbFirst(c, readings, value, k) ==
    IF k >= Bpc(c) THEN value
    ELSE SampleBits_LsbFirst(c, readings,
                             value + (IF c.pins[k] \in readings THEN 2 ^ k ELSE 0),
                             k + 1)

\* the bits of one read phase shifted into value, MSB first
RECURSIVE SampleBits(_, _, _, _)
SampleBits(c, readings, value, k) ==
    IF k >= Bpc(c) THEN value
    ELSE SampleBits(c, readings,
                    ((value * 2) % 256) + (IF c.pins[k] \in readings THEN 1 ELSE 0),
                    k + 1)

\* fault: thold is not taken into account after a read strobe
ReadGap_NoHold(c, j) == IF j = 1 THEN c.tproc ELSE c.tclock

\* timing after the strobe is released, j phases of the byte left (this one included)
WriteGap(c, j) == IF j = 1 THEN c.tproc ELSE c.tclock
ReadGap(c, j) ==
    LET t == IF j = 1 THEN c.tproc ELSE c.tclock
    IN  IF c.thold > t THEN c.thold ELSE t

\* ---- writedata / writecommand / writeparallel ----

\* fault: writeparallel leaves the data pins as it set them for the transfer
RestoreBuf_Skipped(c, gbuf) == gbuf

\* fault: only the first data pin is turned to output in the snapshot
OutputBuf_FirstPinOnly(c, gbuf) == SetModesBuf(gbuf, c.pins, 0, 1, PI_OUTPUT)

\* gpioBuf with the data pins turned to output, and back to input
OutputBuf(c, gbuf) == SetModesBuf(gbuf, c.pins, 0, Bpc(c), PI_OUTPUT)
RestoreBuf(c, gbuf) == SetModesBuf(gbuf, c.pins, 0, Bpc(c), PI_INPUT)

\* the call up to the first WAIT(): curchip, clr, set, then the snapshot of the
\* function-select words with the data pins turned to output
CallWrite(h, op, data) ==
    /\ pc = "idle"
    /\ h \in Live
    /\ curchip' = h
    /\ clr' = RscdMasks(chips[h], IsData(op)).clr
    /\ set' = RscdMasks(chips[h], IsData(op)).set
    /\ call' = [op |-> op, h |-> h, n |-> Len(data), data |-> data,
                fresh |-> (fifo = << >>), after |-> NoWrite, fsel0 |-> fsel]
    /\ buf' = data
    /\ ret' = Void
    /\ trace' = << >>
    /\ IF gpioReg = MAP_FAILED
          THEN /\ pc' = "crashed"
               /\ UNCHANGED loc
          ELSE /\ pc' = "wDir0"
               /\ loc' = [LocIdle EXCEPT !.gpioBuf = OutputBuf(chips[h], fsel)]
    /\ UNCHANGED <<jitter, edge, gpioReg, nmaps, chips, leaked, fsel, latch, ttime, timing,
                   now, fifo, bus>>

\* WAIT(); gpioReg[0] = gpioBuf[0]
WDir0 ==
    /\ pc = "wDir0"
    /\ WaitThen(FALSE)
    /\ fsel' = [fsel EXCEPT ![0] = loc.gpioBuf[0]]
    /\ pc' = "wDir1"
    /\ edge' = NoEdge
    /\ UNCHANGED <<jitter, gpioReg, nmaps, chips, leaked, latch, curchip, timing,
                   clr, set, call, buf, ret, loc, fifo, bus, trace>>

\* gpioReg[r] = gpioBuf[r], on the way to output or back to input
WFsel(at, r, next) ==
    /\ pc = at
    /\ fsel' = [fsel EXCEPT ![r] = loc.gpioBuf[r]]
    /\ pc' = next
    /\ UNCHANGED <<jitter, edge, gpioReg, nmaps, chips, leaked, latch, curchip, ttime, timing,
                   clr, set, call, buf, ret, loc, now, fifo, bus, trace>>

\* *(gpioReg + GPCLR0) = clr
WMode1 ==
    /\ pc = "wMode1"
    /\ HwWrite(0, clr)
    /\ pc' = "wMode2"
    /\ UNCHANGED <<jitter, edge, gpioReg, nmaps, chips, leaked, fsel, curchip, ttime, timing,
                   clr, set, call, buf, ret, loc, now>>

\* *(gpioReg + GPSET0) = set; SET(); timing = tsetup; the first loop test
WMode2 ==
    /\ pc = "wMode2"
    /\ HwWrite(1, set)
    /\ ttime' = SetCursor(ttime, timing)
    /\ timing' = cur.tsetup
    /\ IF 0 < call.n
          THEN /\ pc' = "wData1"
               /\ loc' = [loc EXCEPT !.i = 0, !.j = 8 \div Bpc(cur), !.datum = buf[1]]
          ELSE /\ pc' = "wRest0"
               /\ loc' = [loc EXCEPT !.gpioBuf = RestoreBuf(cur, loc.gpioBuf)]
    /\ UNCHANGED <<jitter, edge, gpioReg, nmaps, chips, leaked, fsel, curchip, clr, set, call,
                   buf, ret, now>>

\* fault: the two writes of a phase in the other order, the clock edge first
FirstLevel_ClockFirst(c) == IF c.protocol = P6800 THEN 1 ELSE 0

\* the register a write phase writes first: 6800 GPCLR0 (0), 8080 GPSET0 (1)
FirstLevel(c) == IF c.protocol = P6800 THEN 0 ELSE 1

\* the masks of the phase; WAIT(); the first of the two writes
WData1 ==
    /\ pc = "wData1"
    /\ LET m == PhaseMasks(cur, loc.datum, 0, ClockMasks(cur))
       IN  /\ clr' = m.clr
           /\ set' = m.set
           /\ loc' = [loc EXCEPT !.datum = m.datum]
           /\ IF FirstLevel(cur) = 0 THEN HwWrite(0, m.clr) ELSE HwWrite(1, m.set)
    /\ WaitThen(FALSE)
    /\ pc' = "wData2"
    /\ UNCHANGED <<jitter, edge, gpioReg, nmaps, chips, leaked, fsel, curchip, timing,
                   call, buf, ret>>

\* the second write carries the clock edge; SET(); timing = tclock
WData2 ==
    /\ pc = "wData2"
    /\ IF FirstLevel(cur) = 0 THEN HwWrite(1, set) ELSE HwWrite(0, clr)
    /\ ttime' = SetCursor(ttime, timing)
    /\ timing' = cur.tclock
    /\ pc' = "wStrobe"
    /\ edge' = [at |-> now, due |-> TsNs(ttime'), by |-> call.op, h |-> curchip]
    /\ UNCHANGED <<jitter, gpioReg, nmaps, chips, leaked, fsel, curchip, clr, set, call,
                   buf, ret, loc, now>>

\* fault: the write strobe is left at its active level
EnwrIdle_StaysActive(c) == IF c.protocol = P6800 THEN 1 ELSE 0

\* the level that puts the clock line of a write back to idle
EnwrIdle(c) == IF c.protocol = P6800 THEN 0 ELSE 1

\* WAIT(); the clock line back to idle; SET(); timing; then the loop tests
WStrobe ==
    /\ pc = "wStrobe"
    /\ WaitThen(TRUE)
    /\ HwWrite(EnwrIdle(cur), {cur.pins[ENWR]})
    /\ timing' = WriteGap(cur, loc.j)
    /\ IF loc.j > 1
          THEN /\ pc' = "wData1"
               /\ loc' = [loc EXCEPT !.j = loc.j - 1]
          ELSE IF loc.i + 1 < call.n
          THEN /\ pc' = "wData1"
               /\ loc' = [loc EXCEPT !.i = loc.i + 1, !.j = 8 \div Bpc(cur),
                                     !.datum = buf[loc.i + 2]]
          ELSE /\ pc' = "wRest0"
               /\ loc' = [loc EXCEPT !.gpioBuf = RestoreBuf(cur, loc.gpioBuf)]
    /\ edge' = [at |-> now', due |-> TsNs(ttime'), by |-> call.op, h |-> curchip]
    /\ UNCHANGED <<jitter, gpioReg, nmaps, chips, leaked, fsel, curchip, clr, set, call,
                   buf, ret>>

\* gpioReg[2] = gpioBuf[2] and writeparallel returns
WReturn ==
    /\ pc = "wRest2"
    /\ fsel' = [fsel EXCEPT ![2] = loc.gpioBuf[2]]
    /\ pc' = "idle"
    /\ loc' = LocIdle
    /\ ret' = Void
    /\ UNCHANGED <<jitter, edge, gpioReg, nmaps, chips, leaked, latch, curchip, ttime, timing,
                   clr, set, call, buf, now, fifo, bus, trace>>

\* ---- readdata / readregister / readparallel ----

\* fault: readparallel does not put a 6800 chip in read mode
ReadMasks_NoReadMode(c, isdata) ==
    [clr |-> RscdMasks(c, isdata).clr, set |-> RscdMasks(c, isdata).set]

\* clr and set as readparallel first writes them: rscd, and rwrd high for 6800
ReadMasks(c, isdata) ==
    [clr |-> RscdMasks(c, isdata).clr,
     set |-> RscdMasks(c, isdata).set
             \cup (IF c.protocol = P6800 THEN {c.pins[RWRD]} ELSE {})]

\* fault: the read entry points do not look at rwrd
WriteOnly_Never(c) == FALSE

\* the test readdata and readregister make before anything else
WriteOnly(c) == c.pins[RWRD] = UNDEFINED

\* the call up to the first WAIT(); -1 at once when rwrd is UNDEFINED
CallRead(h, op, n) ==
    /\ pc = "idle"
    /\ h \in Live
    /\ curchip' = h
    /\ call' = [op |-> op, h |-> h, n |-> n, data |-> [k \in 1..n |-> FillByte],
                fresh |-> FALSE,
                after |-> IF call.fresh /\ call.h = h
                             THEN [op |-> call.op, data |-> call.data] ELSE NoWrite,
                fsel0 |-> fsel]
    /\ buf' = [k \in 1..n |-> FillByte]
    /\ IF WriteOnly(chips[h])
          THEN /\ ret' = -1
               /\ UNCHANGED <<clr, set, pc, trace>>
          ELSE /\ ret' = Void
               /\ clr' = ReadMasks(chips[h], IsData(op)).clr
               /\ set' = ReadMasks(chips[h], IsData(op)).set
               /\ pc' = "rMode1"
               /\ trace' = << >>
    /\ UNCHANGED <<jitter, edge, gpioReg, nmaps, chips, leaked, fsel, latch, ttime, timing,
                   loc, now, fifo, bus>>

\* WAIT(); *(gpioReg + GPCLR0) = clr, the first register access of readparallel
RMode1 ==
    /\ pc = "rMode1"
    /\ WaitThen(FALSE)
    /\ IF gpioReg = MAP_FAILED
          THEN /\ pc' = "crashed"
               /\ UNCHANGED <<latch, fifo, bus, trace>>
          ELSE /\ HwWrite(0, clr)
               /\ pc' = "rMode2"
    /\ edge' = NoEdge
    /\ UNCHANGED <<jitter, gpioReg, nmaps, chips, leaked, fsel, curchip, timing,
                   clr, set, call, buf, ret, loc>>

\* the clock line of a read: enwr for 6800, rwrd for 8080
ReadClk(c) == IF c.protocol = P6800 THEN {c.pins[ENWR]} ELSE {c.pins[RWRD]}

\* the level that asserts the read strobe: 6800 raises enwr, 8080 lowers rwrd
ReadActive(c) == IF c.protocol = P6800 THEN 1 ELSE 0

\* fault: readparallel returns without putting a 6800 chip back in write mode
EndMasks_KeepRead(c) == [clr |-> {}, set |-> {}]

\* clr and set for the end of readparallel: 6800 puts the chip back in write mode
EndMasks(c) ==
    [clr |-> IF c.protocol = P6800 THEN {c.pins[RWRD]} ELSE {}, set |-> {}]

\* *(gpioReg + GPSET0) = set; SET(); timing = tsetup; the first loop test
RMode2 ==
    /\ pc = "rMode2"
    /\ HwWrite(1, set)
    /\ ttime' = SetCursor(ttime, timing)
    /\ timing' = cur.tsetup
    /\ IF 0 < call.n
          THEN /\ pc' = "rAssert"
               /\ loc' = [loc EXCEPT !.i = 0, !.j = 8 \div Bpc(cur), !.value = 0]
               /\ UNCHANGED <<clr, set>>
          ELSE /\ pc' = "rEnd1"
               /\ clr' = EndMasks(cur).clr
               /\ set' = EndMasks(cur).set
               /\ UNCHANGED loc
    /\ UNCHANGED <<jitter, edge, gpioReg, nmaps, chips, leaked, fsel, curchip, call, buf, ret, now>>

\* WAIT(); the read strobe; SET(); timing = tread
RAssert ==
    /\ pc = "rAssert"
    /\ WaitThen(TRUE)
    /\ HwWrite(ReadActive(cur), ReadClk(cur))
    /\ timing' = cur.tread
    /\ pc' = "rSample"
    /\ edge' = [at |-> now', due |-> TsNs(ttime'), by |-> call.op, h |-> curchip]
    /\ UNCHANGED <<jitter, gpioReg, nmaps, chips, leaked, fsel, curchip, clr, set, call,
                   buf, ret, loc>>

\* fault: no delay is armed after the sample
SampleGap_None(c) == 0

\* timing after the sample, with the cursor left where the strobe put it
SampleGap(c) == c.tclock

\* WAIT(); readings = GPLEV0; timing = tclock; the cursor is not advanced
RSample ==
    /\ pc = "rSample"
    /\ WaitThen(FALSE)
    /\ timing' = SampleGap(cur)
    /\ loc' = [loc EXCEPT !.value = SampleBits(cur, Gplev0(cur), loc.value, 0)]
    /\ pc' = "rDeassert"
    /\ UNCHANGED <<jitter, edge, gpioReg, nmaps, chips, leaked, fsel, latch, curchip,
                   clr, set, call, buf, ret, fifo, bus, trace>>

\* WAIT(); the read strobe released; SET(); timing; the loop tests with
\* datapos[i] = value
RDeassert ==
    /\ pc = "rDeassert"
    /\ WaitThen(TRUE)
    /\ HwWrite(1 - ReadActive(cur), ReadClk(cur))
    /\ timing' = ReadGap(cur, loc.j)
    /\ IF loc.j > 1
          THEN /\ pc' = "rAssert"
               /\ loc' = [loc EXCEPT !.j = loc.j - 1]
               /\ UNCHANGED <<buf, clr, set>>
          ELSE /\ buf' = [buf EXCEPT ![loc.i + 1] = loc.value]
               /\ IF loc.i + 1 < call.n
                     THEN /\ pc' = "rAssert"
                          /\ loc' = [loc EXCEPT !.i = loc.i + 1, !.j = 8 \div Bpc(cur),
                                                !.value = 0]
                          /\ UNCHANGED <<clr, set>>
                     ELSE /\ pc' = "rEnd1"
                          /\ clr' = EndMasks(cur).clr
                          /\ set' = EndMasks(cur).set
                          /\ UNCHANGED loc
    /\ edge' = [at |-> now', due |-> TsNs(ttime'), by |-> call.op, h |-> curchip]
    /\ UNCHANGED <<jitter, gpioReg, nmaps, chips, leaked, fsel, curchip, call, ret>>

\* *(gpioReg + GPCLR0) = clr, without a WAIT()
REnd1 ==
    /\ pc = "rEnd1"
    /\ HwWrite(0, clr)
    /\ pc' = "rEnd2"
    /\ UNCHANGED <<jitter, edge, gpioReg, nmaps, chips, leaked, fsel, curchip, ttime, timing,
                   clr, set, call, buf, ret, loc, now>>

\* *(gpioReg + GPSET0) = set, then readdata returns 0, readregister the byte read
RReturn ==
    /\ pc = "rEnd2"
    /\ HwWrite(1, set)
    /\ pc' = "idle"
    /\ loc' = LocIdle
    /\ ret' = IF call.op = "readdata" THEN 0 ELSE buf[1]
    /\ UNCHANGED <<jitter, edge, gpioReg, nmaps, chips, leaked, fsel, curchip, ttime, timing,
                   clr, set, call, buf, now>>

(***************************************************************************)
(* The steps of a transfer in progress.                                    *)
(***************************************************************************)
Step ==
    \/ WDir0
    \/ WFsel("wDir1", 1, "wDir2")
    \/ WFsel("wDir2", 2, "wMode1")
    \/ WMode1
    \/ WMode2
    \/ WData1
    \/ WData2
    \/ WStrobe
    \/ WFsel("wRest0", 0, "wRest1")
    \/ WFsel("wRest1", 1, "wRest2")
    \/ WReturn
    \/ RMode1
    \/ RMode2
    \/ RAssert
    \/ RSample
    \/ RDeassert
    \/ REnd1
    \/ RReturn

(***************************************************************************)
(* Spec: a program that initialises one read/write descriptor on the stub  *)
(* pins and then transfers through it.                                     *)
(***************************************************************************)
BusArgs ==
    { Args(LayA, four, FALSE, proto) : four \in BOOLEAN, proto \in {P6800, P8080} }

Next ==
    \/ \E a \in BusArgs : nmaps = 0 /\ initialise(a, "ok")
    \/ \E g \in IdleGaps : Idle(g)
    \/ \E h \in Handles, data \in SeqsUpTo(MaxLen) : CallWrite(h, "writedata", data)
    \/ \E h \in Handles, b \in DataVals : CallWrite(h, "writecommand", <<b>>)
    \/ \E h \in Handles, n \in 0..MaxLen : CallRead(h, "readdata", n)
    \/ \E h \in Handles : CallRead(h, "readregister", 1)
    \/ Step

Spec == Init /\ [][Next]_vars

(***************************************************************************)
(* SpecSys: a program that creates and frees descriptors on two sets of    *)
(* pins, on a system where /dev/gpiomem may fail to open or to map, and    *)
(* makes one-byte transfers through them.                                  *)
(***************************************************************************)
SysArgs ==
    { Args(LayA, FALSE, FALSE, P6800), Args(LayA, TRUE, TRUE, P8080),
      Args(LayB, TRUE, FALSE, P8080), Args(LayB, FALSE, TRUE, P6800) }

\* the byte these programs send
SysVals == {53}

\* the runs of these programs are followed for SysTime ns
InSysTime == now' <= InitClock + SysTime

NextSys ==
    \/ \E a \in SysArgs, o \in GpioOutcomes : initialise(a, o) /\ InSysTime
    \/ \E h \in Handles : deinitialise(h) /\ InSysTime
    \/ \E g \in IdleGaps : Idle(g) /\ InSysTime
    \/ \E h \in Handles, b \in SysVals : CallWrite(h, "writedata", <<b>>) /\ InSysTime
    \/ \E h \in Handles, b \in SysVals : CallWrite(h, "writecommand", <<b>>) /\ InSysTime
    \/ \E h \in Handles : CallRead(h, "readdata", 1) /\ InSysTime
    \/ \E h \in Handles : CallRead(h, "readregister", 1) /\ InSysTime
    \/ WDir0 /\ InSysTime
    \/ WFsel("wDir1", 1, "wDir2") /\ InSysTime
    \/ WFsel("wDir2", 2, "wMode1") /\ InSysTime
    \/ WMode1 /\ InSysTime
    \/ WMode2 /\ InSysTime
    \/ WData1 /\ InSysTime
    \/ WData2 /\ InSysTime
    \/ WStrobe /\ InSysTime
    \/ WFsel("wRest0", 0, "wRest1") /\ InSysTime
    \/ WFsel("wRest1", 1, "wRest2") /\ InSysTime
    \/ WReturn /\ InSysTime
    \/ RMode1 /\ InSysTime
    \/ RMode2 /\ InSysTime
    \/ RAssert /\ InSysTime
    \/ RSample /\ InSysTime
    \/ RDeassert /\ InSysTime
    \/ REnd1 /\ InSysTime
    \/ RReturn /\ InSysTime

SpecSys == Init /\ [][NextSys]_vars

(***************************************************************************)
(* SpecTime: a program that initialises one read/write descriptor with one *)
(* of several sets of wait times and makes one-byte transfers through it,  *)
(* on a system whose scheduler delays the program inside WAIT().           *)
(***************************************************************************)
\* wait times with tread below, equal to and above tclock, thold below and
\* above tclock and tproc
TimeSets ==
    { [tsetup |-> 1, tclock |-> 1, tread |-> 1, tproc |-> 3, thold |-> 2],
      [tsetup |-> 1, tclock |-> 3, tread |-> 1, tproc |-> 2, thold |-> 0],
      [tsetup |-> 0, tclock |-> 1, tread |-> 2, tproc |-> 1, thold |-> 4] }

TimeArgs ==
    { [Args(LayA, four, FALSE, proto) EXCEPT
          !.tsetup = t.tsetup, !.tclock = t.tclock, !.tread = t.tread,
          !.tproc = t.tproc, !.thold = t.thold] :
      four \in BOOLEAN, proto \in {P6800, P8080}, t \in TimeSets }

InitTime == Boot /\ jitter = LoadDelays

\* the runs of these programs are followed for TimeSpan ns
InTimeSpan == now' <= InitClock + TimeSpan

NextTime ==
    \/ \E a \in TimeArgs : initialise(a, "ok") /\ InTimeSpan
    \/ \E h \in Handles : deinitialise(h) /\ InTimeSpan
    \/ \E g \in LoadDelays \ {0} : Idle(g) /\ InTimeSpan
    \/ \E h \in Handles, b \in SysVals : CallWrite(h, "writecommand", <<b>>) /\ InTimeSpan
    \/ \E h \in Handles : CallRead(h, "readregister", 1) /\ InTimeSpan
    \/ WDir0 /\ InTimeSpan
    \/ WFsel("wDir1", 1, "wDir2") /\ InTimeSpan
    \/ WFsel("wDir2", 2, "wMode1") /\ InTimeSpan
    \/ WMode1 /\ InTimeSpan
    \/ WMode2 /\ InTimeSpan
    \/ WData1 /\ InTimeSpan
    \/ WData2 /\ InTimeSpan
    \/ WStrobe /\ InTimeSpan
    \/ WFsel("wRest0", 0, "wRest1") /\ InTimeSpan
    \/ WFsel("wRest1", 1, "wRest2") /\ InTimeSpan
    \/ WReturn /\ InTimeSpan
    \/ RMode1 /\ InTimeSpan
    \/ RMode2 /\ InTimeSpan
    \/ RAssert /\ InTimeSpan
    \/ RSample /\ InTimeSpan
    \/ RDeassert /\ InTimeSpan
    \/ REnd1 /\ InTimeSpan
    \/ RReturn /\ InTimeSpan

SpecTime == InitTime /\ [][NextTime]_vars

(***************************************************************************)
(* SpecPins: a program that calls initialise with pin arguments inside and *)
(* outside the range of the GPIO numbers, and frees the descriptor again.  *)
(***************************************************************************)
\* arguments for a slot initialise range-checks (d3..d0, rwrd)
CheckedVals == {-1, 0, MaxPin, MaxPin + 1}
\* arguments for a slot initialise casts and stores (d7..d4, rscd, enwr); they
\* are kept non-negative, where the cast leaves the value as it is, and
\* below 30, where pins[i]/10 stays inside gpioBuf[3]
GivenVals == {1, MaxPin, MaxPin + 1, MaxPin + 2}

PinArgs ==
    { [Args(LayA, FALSE, FALSE, proto) EXCEPT
          !.pins = [LayA EXCEPT ![0] = d7, ![4] = d3, ![RSCD] = rscd, ![RWRD] = rwrd]] :
      d7 \in GivenVals, d3 \in CheckedVals, rscd \in GivenVals,
      rwrd \in CheckedVals, proto \in {P6800, P8080} }

NextPins ==
    \/ \E a \in PinArgs : initialise(a, "ok")
    \/ \E h \in Handles : deinitialise(h)

SpecPins == Init /\ [][NextPins]_vars

(***************************************************************************)
(* SpecLive: the programs of SpecSys, whose calls begin within SysTime ns  *)
(* and whose transfers then run on: the process keeps executing the        *)
(* transfer it is in and the clock keeps advancing, so a step that is      *)
(* possible is eventually taken.                                           *)
(***************************************************************************)
\* a call begins while the run is followed
CallInTime == now <= InitClock + SysTime

NextLive ==
    \/ \E a \in SysArgs, o \in GpioOutcomes : CallInTime /\ initialise(a, o)
    \/ \E h \in Handles : CallInTime /\ deinitialise(h)
    \/ \E g \in IdleGaps : CallInTime /\ Idle(g)
    \/ \E h \in Handles, b \in SysVals : CallInTime /\ CallWrite(h, "writedata", <<b>>)
    \/ \E h \in Handles, b \in SysVals : CallInTime /\ CallWrite(h, "writecommand", <<b>>)
    \/ \E h \in Handles : CallInTime /\ CallRead(h, "readdata", 1)
    \/ \E h \in Handles : CallInTime /\ CallRead(h, "readregister", 1)
    \/ Step

SpecLive == Init /\ [][NextLive]_vars /\ WF_vars(Step)

(***************************************************************************)
(* Properties.                                                             *)
(***************************************************************************)
Writes == {"writedata", "writecommand"}
Reads == {"readdata", "readregister"}

\* the level GPLEV0 shows on pin p while the current chip is c
PinLevel(c, p) == IF p \in Gplev0(c) THEN 1 ELSE 0

\* C1: at every quiescent point (no call in progress) every defined data pin of
\* every live descriptor is an input and every defined control pin an output.
C1_QuiescentDirections ==
    pc = "idle" =>
        \A h \in Live :
            /\ \A p \in DataPins(chips[h]) : gpioGetMode(p) = PI_INPUT
            /\ \A p \in CtrlPins(chips[h]) : gpioGetMode(p) = PI_OUTPUT

\* two descriptors are live and a write through the 8-bit one has returned
C1_Witness ==
    /\ pc = "idle"
    /\ Cardinality(Live) = 2
    /\ call.op = "writedata"
    /\ Bpc(chips[call.h]) = 8

\* C2: once a descriptor with rwrd defined is initialised, no state has a data
\* pin of it in output direction while its controller is commanded to drive the
\* bus (6800: rwrd high, 8080: rwrd low).
C2_NoContention ==
    \A h \in Live :
        chips[h].pins[RWRD] # UNDEFINED =>
            ~ /\ ReadMode(chips[h], latch)
              /\ \E p \in DataPins(chips[h]) : gpioGetMode(p) = PI_OUTPUT

\* a read is under way, the controller commanded to drive, after a write whose
\* second byte the controller still holds
C2_Witness ==
    /\ pc = "rSample"
    /\ ReadMode(cur, latch)
    /\ call.after.op = "writedata"
    /\ fifo # << >>
    /\ \A p \in DataPins(cur) : gpioGetMode(p) = PI_INPUT

\* C3: readdata and readregister on a descriptor whose rwrd is UNDEFINED return -1
\* at once and write no GPIO register (no direction, no level), leave the timing
\* cursor and the pending delay as they were, and leave the caller's buffer as
\* the caller passed it.
C3_ReadRefused ==
    [][ ( /\ pc = "idle"
          /\ call'.op \in Reads
          /\ chips[call'.h].pins[RWRD] = UNDEFINED )
        => ( /\ pc' = "idle"
             /\ ret' = -1
             /\ fsel' = fsel
             /\ latch' = latch
             /\ trace' = trace
             /\ ttime' = ttime
             /\ timing' = timing
             /\ buf' = call'.data ) ]_vars

\* a read on a write-only descriptor has returned -1 while a delay was pending
\* from a write before it
C3_Witness ==
    /\ pc = "idle"
    /\ call.op = "readdata"
    /\ chips[call.h].pins[RWRD] = UNDEFINED
    /\ ret = -1
    /\ timing = Timings.tproc
    /\ buf = <<FillByte>>

\* C4: when /dev/gpiomem cannot be opened or mapped, initialise returns null,
\* writes no GPIO register, leaves the timing cursor and the pending delay as
\* they were, and leaves no descriptor allocated.
C4_FailedInitialiseClean ==
    [][ ( /\ pc = "idle"
          /\ call'.op = "initialise"
          /\ ret' = NULL )
        => ( /\ fsel' = fsel
             /\ latch' = latch
             /\ ttime' = ttime
             /\ timing' = timing
             /\ chips' = chips
             /\ leaked' = leaked ) ]_vars

\* C5: after a first successful initialise the process keeps the one mapping
\* that call made, whatever later initialise calls do.
C5_SingleMapping ==
    nmaps >= 1 => (gpioReg = 1 /\ nmaps = 1)

\* the level changes of enwr in the current transfer, in order
EnwrEdges == SelectSeq(trace, LAMBDA e : e[1] = "enwr" /\ e[2] # e[3])
ActiveLevel(c) == IF c.protocol = P6800 THEN 1 ELSE 0

\* C6: a write of N bytes makes exactly N * (8/bpc) active edges on enwr, each
\* followed by one inactive edge before the next active edge.
C6_StrobeEdges ==
    (call.op \in Writes /\ pc # "crashed") =>
        LET c == chips[call.h]
        IN  /\ \A k \in 1..Len(EnwrEdges) :
                  EnwrEdges[k][2] = IF k % 2 = 1 THEN ActiveLevel(c)
                                    ELSE 1 - ActiveLevel(c)
            /\ pc = "idle" => Len(EnwrEdges) = 2 * (call.n * (8 \div Bpc(c)))

\* a write of two bytes in 4-bit mode has returned after four strobes
C6_Witness ==
    /\ pc = "idle"
    /\ call.op = "writedata"
    /\ call.n = 2
    /\ Bpc(chips[call.h]) = 4
    /\ Len(EnwrEdges) = 8

\* C7: during a write, whenever enwr is at its active level every active data
\* pin is at the level of the bit being sent on it in this phase.
C7_DataStableAtStrobe ==
    (call.op \in Writes /\ pc \notin {"idle", "crashed"} /\ EnwrActive(cur, latch)) =>
        /\ pc \in {"wData2", "wStrobe"}
        /\ LET phase == (8 \div Bpc(cur)) - loc.j
           IN  \A k \in 0..(Bpc(cur) - 1) :
                   PinLevel(cur, cur.pins[k])
                       = BitOf(buf[loc.i + 1], 7 - (phase * Bpc(cur) + k))

\* the strobe of the second nibble of the second byte is active
C7_Witness ==
    /\ pc = "wStrobe"
    /\ EnwrActive(cur, latch)
    /\ Bpc(cur) = 4
    /\ loc.i = 1
    /\ loc.j = 1
    /\ buf[2] = 53

\* pin d_i of the chip c
PinD(c, i) == c.pins[7 - i]

\* C8: bits go MSB first on d7 downwards.  8-bit mode: bit i is on pin d_i at the
\* write strobe and is sampled from d_i.  4-bit mode: bits 7..4 go in the first
\* phase and bits 3..0 in the second, on d7..d4; on read the bits of the first
\* phase become the high four bits of the byte stored, those of the second the low.
C8_BitOrder ==
    [][ /\ (pc' = "wStrobe" /\ call'.op \in Writes) =>
              LET c == chips'[curchip']
                  b == buf'[loc'.i + 1]
                  lev(p) == IF p \in latch' THEN 1 ELSE 0
              IN  IF Bpc(c) = 8
                     THEN \A i \in 0..7 : lev(PinD(c, i)) = BitOf(b, i)
                  ELSE IF loc'.j = 2
                     THEN \A i \in 4..7 : lev(PinD(c, i)) = BitOf(b, i)
                  ELSE \A i \in 4..7 : lev(PinD(c, i)) = BitOf(b, i - 4)
        /\ (pc = "rSample" /\ pc' = "rDeassert") =>
              IF Bpc(cur) = 8
                 THEN \A i \in 0..7 : BitOf(loc'.value, i) = PinLevel(cur, PinD(cur, i))
              ELSE /\ \A i \in 4..7 :
                         BitOf(loc'.value, i - 4) = PinLevel(cur, PinD(cur, i))
                   /\ loc.j = 1 => loc'.value \div 16 = loc.value % 16
        /\ (pc = "rDeassert" /\ loc.j = 1) => buf'[loc.i + 1] = loc.value
      ]_vars

\* the second nibble of a byte has been sampled, the byte read is 53: its high
\* nibble 3 came in the first phase, its low nibble 5 in the second
C8_Witness ==
    /\ pc = "rDeassert"
    /\ Bpc(cur) = 4
    /\ loc.j = 1
    /\ loc.value = 53
    /\ bus = 5
    /\ call.after.op = "writedata"

\* C9: with the stub controller, writedata(B) followed by readdata(len(B)) fills
\* the buffer with B, and writecommand(b) followed by readregister() returns b.
C9_RoundTrip ==
    pc = "idle" =>
        /\ (call.op = "readdata" /\ call.after.op = "writedata"
               /\ call.n = Len(call.after.data)) => buf = call.after.data
        /\ (call.op = "readregister" /\ call.after.op = "writecommand")
               => ret = call.after.data[1]

\* two bytes written in 4-bit mode have been read back
C9_Witness ==
    /\ pc = "idle"
    /\ call.op = "readdata"
    /\ call.after.op = "writedata"
    /\ call.after.data = <<53, 202>>
    /\ Bpc(chips[call.h]) = 4
    /\ buf = <<53, 202>>

\* the level of rscd a transfer selects
ExpectedRscd(c, op) ==
    IF c.protocol = P6800
        THEN (IF op \in {"writedata", "readdata"} THEN 1 ELSE 0)
    ELSE (IF op \in {"writedata", "readdata"} THEN 0 ELSE 1)
\* a write to a strobe line: enwr, and rwrd of an 8080 chip
IsStrobe(c, e) == e[1] = "enwr" \/ (c.protocol = P8080 /\ e[1] = "rwrd")

\* C10: a transfer puts rscd at the level its mode and protocol select before
\* the first strobe edge and does not write rscd again before it returns.
C10_RscdLevel ==
    (call.op \in Writes \cup Reads /\ pc # "crashed") =>
        LET c == chips[call.h]
            strobed == \E k \in 1..Len(trace) : IsStrobe(c, trace[k])
        IN  /\ (strobed \/ pc = "idle") =>
                  (IF c.pins[RSCD] \in latch THEN 1 ELSE 0) = ExpectedRscd(c, call.op)
            /\ \A k \in 1..Len(trace) :
                  trace[k][1] = "rscd" => \A m \in 1..(k - 1) : ~IsStrobe(c, trace[m])
            /\ Cardinality({k \in 1..Len(trace) : trace[k][1] = "rscd"}) <= 1

\* readregister on an 8080 chip has its read strobe active with rscd high
C10_Witness ==
    /\ pc = "rSample"
    /\ call.op = "readregister"
    /\ cur.protocol = P8080
    /\ cur.pins[RSCD] \in latch
    /\ \E k \in 1..Len(trace) : trace[k][1] = "rwrd"

\* C11: the timing state belongs to a descriptor: while a descriptor is live,
\* an initialise that creates another one leaves the timing cursor and the
\* pending delay as the transfers of the first left them.
C11_TimingPerDescriptor ==
    [][ ( /\ pc = "idle"
          /\ Live # {}
          /\ call'.op = "initialise"
          /\ ret' # NULL )
        => (ttime' = ttime /\ timing' = timing) ]_vars

\* the writes to the lines of c in the current transfer, by name
EventsOn(name) == SelectSeq(trace, LAMBDA e : e[1] = name)

\* C16: in a 6800 read of one or more bytes rwrd is written high before the
\* first rising edge of enwr, is high in every state in which enwr is high, and
\* is written low only after the last falling edge of enwr, by a register write
\* that no WAIT() precedes: the clock and the cursor are as the last strobe
\* release left them.
C16_ReadModeBrackets ==
    [][ (call'.op \in Reads /\ call'.n >= 1 /\ pc' \notin {"idle", "crashed"}
            /\ chips'[curchip'].protocol = P6800) =>
          LET c == chips'[curchip']
              rw(k) == trace'[k][1] = "rwrd"
              en(k) == trace'[k][1] = "enwr"
              idx == 1..Len(trace')
          IN  /\ c.pins[ENWR] \in latch' => c.pins[RWRD] \in latch'
              /\ \A k \in idx : (rw(k) /\ trace'[k][2] = 1) =>
                                    \A m \in idx : en(m) => k < m
              /\ \A k \in idx : (rw(k) /\ trace'[k][2] = 0) =>
                                    /\ \A m \in idx : en(m) => m < k
                                    /\ Len(SelectSeq(trace', LAMBDA e : e[1] = "enwr"))
                                          = 2 * (call'.n * (8 \div Bpc(c)))
              /\ (pc = "rEnd1" /\ pc' = "rEnd2") =>
                    /\ now' = now /\ ttime' = ttime
                    /\ <<"rwrd", 0, 1>> = trace'[Len(trace')]
      ]_vars

\* a 6800 read of two bytes has put rwrd low again after its last strobe
C16_Witness ==
    /\ pc = "rEnd2"
    /\ cur.protocol = P6800
    /\ call.op = "readdata"
    /\ call.n = 2
    /\ cur.pins[RWRD] \notin latch
    /\ Len(EventsOn("enwr")) = 2 * (2 * (8 \div Bpc(cur)))

\* C17: a transfer of length 0 makes no strobe edge and writes no level to
\* enwr or rwrd; it writes only function-select words and rscd.
C17_ZeroLengthQuiet ==
    (call.op \in {"writedata", "readdata"} /\ call.n = 0 /\ pc # "crashed") =>
        /\ EventsOn("enwr") = << >>
        /\ EventsOn("rwrd") = << >>

\* the function-select words the active data pins of c lie in
DataWords(c) == {c.pins[k] \div 10 : k \in 0..(Bpc(c) - 1)}
\* some active data pins of c are outputs while others are inputs
MixedDirections(c) ==
    \E p, q \in {c.pins[k] : k \in 0..(Bpc(c) - 1)} :
        gpioGetMode(p) = PI_OUTPUT /\ gpioGetMode(q) = PI_INPUT

\* C20 as stated: during a write no state has some active data pins as outputs
\* and others as inputs, wherever the pins are.
C20_NeverMixed ==
    (call.op \in Writes /\ pc \notin {"idle", "crashed"}) => ~MixedDirections(cur)

\* C20: during a write of a descriptor whose active data pins all lie in one
\* function-select word no state has some of them as outputs and others as
\* inputs; pins in different words change direction word by word.
C20_OneWordAtomic ==
    (call.op \in Writes /\ pc \notin {"idle", "crashed"}) =>
        (MixedDirections(cur) => Cardinality(DataWords(cur)) > 1)

\* the four data pins of a 4-bit descriptor, all in word 0, have just been
\* turned to output by the write of that word
C20_Witness ==
    /\ pc = "wDir1"
    /\ Bpc(cur) = 4
    /\ Cardinality(DataWords(cur)) = 1
    /\ \A k \in 0..3 : gpioGetMode(cur.pins[k]) = PI_OUTPUT

\* C12: when a write follows a write on the same descriptor with no operation
\* in between, its first register write comes at least tproc after the clock
\* time at which the last enwr release of the write before it was written.
C12_GapAfterWrite ==
    [][ (pc = "wDir0" /\ pc' = "wDir1" /\ edge.by \in Writes /\ edge.h = curchip)
        => now' >= edge.at + cur.tproc ]_vars

\* C13: the timing cursor never decreases, and when it is updated it is not
\* after the monotonic clock.
C13_CursorMonotone ==
    [][ /\ TsNs(ttime') >= TsNs(ttime)
        /\ ttime' # ttime => TsNs(ttime') <= now' ]_vars

\* a strobe has been scheduled across the carry of tv_nsec into tv_sec
C13_Witness ==
    /\ pc = "wStrobe"
    /\ ttime.sec = 1
    /\ edge.due = TsNs(ttime)
    /\ edge.due <= now

\* a WAIT() that began at clock value t0, ended at t1 and left the cursor at
\* cursor1 kept the cursor (the clock was before cursor + pending) or moved it to
\* the clock value it read
WaitOutcome(t0, t1, cursor1) ==
    \/ (t0 < TsNs(ttime) + timing /\ cursor1 = TsNs(ttime))
    \/ \E c1 \in t0..t1 : c1 >= TsNs(ttime) + timing /\ cursor1 = c1

\* C14: the cursor after the SET() of a strobe edge is the cursor before the
\* WAIT() plus the pending delay, or the clock value that WAIT() read plus the
\* pending delay when the clock had reached cursor + pending; and the register
\* write is not before that cursor.
C14_EdgeSchedule ==
    [][ /\ pc \in {"wStrobe", "rAssert", "rDeassert"} =>
              /\ WaitOutcome(now, now', TsNs(ttime') - timing)
              /\ now' >= TsNs(ttime')
        /\ pc = "wData1" => WaitOutcome(now, now', TsNs(ttime'))
        /\ pc = "wData2" =>
              /\ TsNs(ttime') = TsNs(ttime) + timing
              /\ now' >= TsNs(ttime')
      ]_vars

\* the strobe of a write is active and the clock is already past cursor +
\* pending: the WAIT() before the release will schedule it from the clock
C14_Witness ==
    /\ pc = "wStrobe"
    /\ timing > 0
    /\ now >= TsNs(ttime) + timing
    /\ edge.at > edge.due

Larger(a, b) == IF a > b THEN a ELSE b

\* the pending delay a transfer of c has armed when it is about to start the
\* phase with j phases of byte i left; hold is whether thold counts (a read)
PendingBefore(c, i, j, hold) ==
    IF j = 8 \div Bpc(c)
        THEN IF i = 0 THEN c.tsetup
             ELSE IF hold THEN Larger(c.tproc, c.thold) ELSE c.tproc
    ELSE IF hold THEN Larger(c.tclock, c.thold) ELSE c.tclock

\* C15: the delay pending after a strobe is released is tclock between the
\* half-bytes and tproc after the last phase of a byte on write, the larger
\* of that and thold on read, and tsetup before the first strobe of a transfer
C15_PendingDelays ==
    /\ pc = "wData1" => timing = PendingBefore(cur, loc.i, loc.j, FALSE)
    /\ (pc = "wRest0" /\ call.n > 0) => timing = cur.tproc
    /\ pc = "rAssert" => timing = PendingBefore(cur, loc.i, loc.j, TRUE)
    /\ (pc = "rEnd1" /\ call.n > 0) => timing = Larger(cur.tproc, cur.thold)

\* a 4-bit read between its two half-bytes, with thold above tclock pending
C15_Witness ==
    /\ pc = "rAssert"
    /\ Bpc(cur) = 4
    /\ loc.j = 1
    /\ cur.thold > cur.tclock
    /\ timing = cur.thold

\* the scheduled width of the read strobe whose release is being scheduled
StrobeWidth == TsNs(ttime') - edge.due

\* the read strobe as first stated: its release is scheduled tread + tclock
\* after the time the strobe was scheduled for (or later, when a WAIT() has
\* stretched the schedule), and the pins are sampled no earlier than tread
\* after that time
C19_WidthIsSum ==
    [][ /\ pc = "rDeassert" => StrobeWidth >= cur.tread + cur.tclock
        /\ pc = "rSample" => now' >= edge.due + cur.tread ]_vars

\* C19: the pins are sampled no earlier than tread after the time the read
\* strobe was scheduled for.  The sample does not advance the cursor, so the
\* release is scheduled tclock after that same time as long as no WAIT() has
\* moved the cursor since, and tread + tclock or more after it otherwise;
\* with tread >= tclock the WAIT() before the release always moves it.
C19_StrobeWidth ==
    [][ /\ pc = "rSample" => now' >= edge.due + cur.tread
        /\ pc = "rDeassert" =>
              /\ \/ StrobeWidth = cur.tclock /\ TsNs(ttime) = edge.due
                 \/ StrobeWidth >= cur.tread + cur.tclock
              /\ cur.tread >= cur.tclock =>
                    StrobeWidth >= cur.tread + cur.tclock ]_vars

\* a read strobe with tread below tclock has been sampled and its release is
\* still due tclock after the assertion
C19_Witness ==
    /\ pc = "rDeassert"
    /\ edge.by \in Reads
    /\ cur.tread < cur.tclock
    /\ TsNs(ttime) = edge.due
    /\ timing = cur.tclock
    /\ now >= edge.due + cur.tread
    /\ now < edge.due + cur.tclock

\* C18: every pin slot of a descriptor that initialise has returned holds
\* either UNDEFINED or a GPIO number in 0..27
C18_PinsInRange ==
    \A h \in Live : \A k \in 0..10 :
        chips[h].pins[k] # UNDEFINED => chips[h].pins[k] \in 0..MaxPin

\* the defined pins of the descriptor the call in progress or last returned
\* has made or has worked on
OwnPins ==
    IF call.op = "initialise"
        THEN IF ret = NULL THEN {} ELSE DefinedPins(chips[ret])
    ELSE IF call.op \in Writes \cup Reads THEN DefinedPins(chips[call.h])
    ELSE {}

\* the 3-bit function-select field of pin p in the words f
ModeIn(f, p) == Field3(f[p \div 10], (p % 10) * 3)

\* C21: initialise and the transfers change the function-select field of no
\* pin in 0..29 other than the defined pins of their descriptor; a read
\* transfer changes no function-select word; when a write transfer returns,
\* words 0..2 are what they were when it was called
C21_FselFrame ==
    [][ /\ \A p \in 0..29 : ModeIn(fsel', p) # ModeIn(fsel, p) => p \in OwnPins'
        /\ call'.op \in Reads => fsel' = fsel
        /\ (pc = "wRest2" /\ pc' = "idle") => fsel' = call.fsel0 ]_vars

\* a write on one of two live descriptors has returned: the words are those
\* of before the call, and a pin of the other descriptor is still an output
C21_Witness ==
    /\ pc = "idle"
    /\ call.op \in Writes
    /\ ret = Void
    /\ fsel = call.fsel0
    /\ \E g \in Live \ {call.h} : gpioGetMode(chips[g].pins[ENWR]) = PI_OUTPUT
    /\ \E p \in 0..29 : p \notin OwnPins /\ ModeIn(fsel, p) \notin {PI_INPUT, PI_OUTPUT}

\* the level of a control line between transfers: low for 6800, high for 8080
IdleLevel(c) == IF c.protocol = P6800 THEN 0 ELSE 1

\* the level the output latch holds for pin p
LatchLevel(p) == IF p \in latch THEN 1 ELSE 0

\* C22: when initialise has returned a descriptor and whenever a transfer has
\* returned, enwr of every live descriptor is at its idle level and so is
\* rwrd where it is defined: low for 6800, high for 8080
C22_IdleLevels ==
    pc = "idle" =>
        \A h \in Live :
            /\ LatchLevel(chips[h].pins[ENWR]) = IdleLevel(chips[h])
            /\ chips[h].pins[RWRD] # UNDEFINED =>
                  LatchLevel(chips[h].pins[RWRD]) = IdleLevel(chips[h])

\* a 6800 read of no bytes has returned: rwrd went high and was put back low
C22_Witness ==
    /\ pc = "idle"
    /\ call.op = "readdata"
    /\ call.n = 0
    /\ ret = 0
    /\ chips[call.h].protocol = P6800
    /\ EventsOn("rwrd") = << <<"rwrd", 1, 0>>, <<"rwrd", 0, 1>> >>
    /\ LatchLevel(chips[call.h].pins[ENWR]) = 0

\* the edges the current transfer has made on the line it strobes
StrobeEdges(c) ==
    LET line == IF call.op \in Reads /\ c.protocol = P8080 THEN "rwrd" ELSE "enwr"
    IN  SelectSeq(trace, LAMBDA e : e[1] = line /\ e[2] # e[3])

\* the transfer last called has returned, all its phases made and the bus
\* restored: data pins inputs, a 6800 chip back in write mode
Returned ==
    /\ pc = "idle"
    /\ call.op \in Writes \cup Reads
    /\ \/ ret = -1
       \/ LET c == chips[call.h]
          IN  /\ Len(StrobeEdges(c)) = 2 * call.n * (8 \div Bpc(c))
              /\ \A p \in DataPins(c) : gpioGetMode(p) = PI_INPUT
              /\ (c.protocol = P6800 /\ c.pins[RWRD] # UNDEFINED) =>
                    LatchLevel(c.pins[RWRD]) = 0

\* C23: every transfer that is called returns, with all its phases made and
\* the bus restored
C23_RunsToCompletion == (pc # "idle") ~> Returned

\* a transfer that is called returns as above or has met a fault on its
\* first access to the GPIO registers
C23_ReturnsOrFaults == (pc # "idle") ~> (Returned \/ pc = "crashed")

=============================================================================
